---- MODULE Spec2Model ----
(***************************************************************************)
(* Model of the mm-jinja template filters (src/src/mm_jinja/filters.py):    *)
(* timestamp, empty, yes_no and nformat.  Each filter is a pure function;   *)
(* a behaviour is one filter call: Init draws the call (filter and          *)
(* arguments), the filter's action applies it and records the outcome       *)
(* (a returned value or a raised exception).                                *)
(*                                                                         *)
(* Python values are records tagged by their type in field t.  A Python    *)
(* str is a sequence of one-character strings.  A float is the IEEE double  *)
(* nearest to a short decimal: sign, magnitude m and scale e stand for      *)
(* m / 10^e, kept normalised (no trailing zero in the fraction), plus       *)
(* inf, -inf and nan.                                                       *)
(***************************************************************************)
EXTENDS Integers, Sequences, FiniteSets, TLC

VARIABLES fn, args, pc, ret, tz

vars == <<fn, args, pc, ret, tz>>

\* ------------------------------------------------------------------ bounds

\* the digits option ranges over -1 .. MaxDigits
MaxDigits == 3

\* --------------------------------------------------------- program constants

\* nformat groups values strictly above this threshold
Threshold == 1000

\* a separator goes after every GroupSize digits, counted from the right
GroupSize == 3

\* ------------------------------------------------------------- text helpers

RECURSIVE Reverse(_)
Reverse(s) == IF s = <<>> THEN <<>> ELSE Reverse(Tail(s)) \o <<Head(s)>>

\* "".join(parts)
RECURSIVE Join(_)
Join(parts) == IF parts = <<>> THEN <<>> ELSE Head(parts) \o Join(Tail(parts))

DigitChars == <<"0", "1", "2", "3", "4", "5", "6", "7", "8", "9">>

IsDigit(c) == \E i \in 1..10 : DigitChars[i] = c

DigitVal(c) == (CHOOSE i \in 1..10 : DigitChars[i] = c) - 1

AllDigits(s) == \A i \in 1..Len(s) : IsDigit(s[i])

\* value of a digit string ("" is 0)
RECURSIVE DigitsVal(_)
DigitsVal(s) ==
    IF s = <<>> THEN 0
    ELSE 10 * DigitsVal(SubSeq(s, 1, Len(s) - 1)) + DigitVal(s[Len(s)])

\* decimal text of a natural number
RECURSIVE NatText(_)
NatText(n) ==
    IF n < 10 THEN <<DigitChars[n + 1]>>
    ELSE NatText(n \div 10) \o <<DigitChars[(n % 10) + 1]>>

\* str(i) for a Python int
IntText(i) == IF i < 0 THEN <<"-">> \o NatText(-i) ELSE NatText(i)

RECURSIVE Pow(_, _)
Pow(b, k) == IF k <= 0 THEN 1 ELSE b * Pow(b, k - 1)

\* zero-padded decimal text, as strftime's %m, %d, %H, %M, %S and %Y
RECURSIVE Pad(_, _)
Pad(s, w) == IF Len(s) >= w THEN s ELSE Pad(<<"0">> \o s, w)

\* -------------------------------------------------------------- Python values

PyNone == [t |-> "None"]
PyBool(b) == [t |-> "bool", b |-> b]
PyInt(n) == [t |-> "int", n |-> n]
PyStr(s) == [t |-> "str", s |-> s]
PyList(items) == [t |-> "list", items |-> items]
PyTuple(items) == [t |-> "tuple", items |-> items]
PyDict(items) == [t |-> "dict", items |-> items]
PyDecimal(s) == [t |-> "Decimal", s |-> s]
PyFloat(f) == [t |-> "float", f |-> f]
PyDatetime(Y, m, d, H, M, S) ==
    [t |-> "datetime", Y |-> Y, m |-> m, d |-> d, H |-> H, M |-> M, S |-> S]
Markup(s) == [t |-> "Markup", s |-> s]

Return(v) == [kind |-> "return", val |-> v]
Raise(exc) == [kind |-> "raise", exc |-> exc]

\* -------------------------------------------------------------------- floats

RECURSIVE Normalise(_, _)
Normalise(m, e) ==
    IF e > 0 /\ m % 10 = 0 THEN Normalise(m \div 10, e - 1) ELSE <<m, e>>

\* the double nearest to (-1)^neg * m / 10^e
Fin(neg, m, e) ==
    LET n == Normalise(m, e)
    IN  [k |-> "fin", neg |-> neg, m |-> n[1], e |-> n[2]]

Inf(neg) == [k |-> "inf", neg |-> neg]
NaN == [k |-> "nan"]

IsFin(f) == f.k = "fin"

\* num == 0  (0.0 and -0.0 are both equal to 0)
FloatIsZero(f) == IsFin(f) /\ f.m = 0

\* a boundary slip: >= in place of >
FloatGe1000(f) ==
    CASE f.k = "nan" -> FALSE
      [] f.k = "inf" -> ~f.neg
      [] OTHER -> ~f.neg /\ f.m >= Threshold * Pow(10, f.e)

\* a sign slip: the magnitude is compared, so large negative numbers group
FloatAbsGt1000(f) ==
    CASE f.k = "nan" -> FALSE
      [] f.k = "inf" -> TRUE
      [] OTHER -> f.m > Threshold * Pow(10, f.e)

\* num > 1000.  1000 is a double, and a decimal of a few digits that is above
\* 1000 has its nearest double above 1000 as well; nan compares False and a
\* negative number is never above the threshold.
FloatGt1000(f) ==
    CASE f.k = "nan" -> FALSE
      [] f.k = "inf" -> ~f.neg
      [] OTHER -> ~f.neg /\ f.m > Threshold * Pow(10, f.e)

\* int(num) for a finite float: truncation toward zero
FloatTrunc(f) ==
    LET q == f.m \div Pow(10, f.e) IN IF f.neg THEN -q ELSE q

\* Whether the double nearest to m / 10^e is exactly m / 10^e: the value is
\* m / 5^e / 2^e, a binary fraction exactly when 5^e divides m.
IsExact(m, e) == m % Pow(5, e) = 0

RECURSIVE BitLength(_)
BitLength(n) == IF n = 0 THEN 0 ELSE 1 + BitLength(n \div 2)

\* Binary long division of r / p (0 < r < p, p odd): after `bits` further
\* significand bits the remainder decides round-to-nearest; TRUE when the
\* double is rounded up.  `lead` is TRUE while the first 1 bit is still to come.
RECURSIVE RoundsUp(_, _, _, _)
RoundsUp(r, p, bits, lead) ==
    IF lead
    THEN IF 2 * r >= p THEN RoundsUp(2 * r - p, p, bits - 1, FALSE)
         ELSE RoundsUp(2 * r, p, bits, TRUE)
    ELSE IF bits = 0 THEN 2 * r > p
         ELSE RoundsUp((2 * r) % p, p, bits - 1, FALSE)

\* Whether the double nearest to the inexact m / 10^e lies above it
\* (53 significand bits, round to nearest).
DoubleAbove(m, e) ==
    LET p == Pow(5, e)
        i == m \div p
    IN  IF i > 0 THEN RoundsUp(m % p, p, 53 - BitLength(i), FALSE)
        ELSE RoundsUp(m % p, p, 53, TRUE)

\* round(num, digits): the decimal with `digits` places nearest to the
\* double's exact value; an exact tie goes to the even neighbour.
\* The sign is kept (round(-0.001, 2) is -0.0); nan and inf are returned as is.
RoundFloat(f, digits) ==
    IF ~IsFin(f) \/ digits >= f.e THEN f
    ELSE LET q == Pow(10, f.e - digits)
             lo == f.m \div q
             r == f.m % q
             up == CASE 2 * r > q -> TRUE
                     [] 2 * r < q -> FALSE
                     [] OTHER -> IF IsExact(f.m, f.e) THEN lo % 2 = 1
                                 ELSE DoubleAbove(f.m, f.e)
             n == IF up THEN lo + 1 ELSE lo
         IN  IF digits >= 0 THEN Fin(f.neg, n, digits)
             ELSE Fin(f.neg, n * Pow(10, -digits), 0)

\* str(num) / repr(num) of a float: the shortest decimal that reads back as
\* the same double, with at least one fraction digit (no exponent form:
\* magnitudes stay within 1e-4 .. 1e16)
FloatRepr(f) ==
    CASE f.k = "nan" -> <<"n", "a", "n">>
      [] f.k = "inf" -> (IF f.neg THEN <<"-">> ELSE <<>>) \o <<"i", "n", "f">>
      [] OTHER ->
           LET p == Pow(10, f.e)
               frac == IF f.e = 0 THEN <<"0">> ELSE Pad(NatText(f.m % p), f.e)
           IN  (IF f.neg THEN <<"-">> ELSE <<>>)
                 \o NatText(f.m \div p) \o <<".">> \o frac

Lower(c) ==
    CASE c = "I" -> "i" [] c = "N" -> "n" [] c = "F" -> "f" [] c = "A" -> "a"
      [] c = "T" -> "t" [] c = "Y" -> "y" [] OTHER -> c

LowerText(s) == [i \in 1..Len(s) |-> Lower(s[i])]

DotAt(s) == {i \in 1..Len(s) : s[i] = "."}

\* float(text): optional sign, then inf / infinity / nan in any case, or
\* digits with an optional fraction (at least one digit).  Anything else is
\* not a number: ValueError.  (Exponents, underscores and surrounding
\* whitespace are not modelled; no modelled text uses them.)
ParseFloat(s) ==
    LET signed == s # <<>> /\ s[1] \in {"+", "-"}
        neg == signed /\ s[1] = "-"
        body == IF signed THEN Tail(s) ELSE s
        low == LowerText(body)
        dots == DotAt(body)
        dot == IF dots = {} THEN Len(body) + 1 ELSE CHOOSE i \in dots : TRUE
        ip == SubSeq(body, 1, dot - 1)
        fp == SubSeq(body, dot + 1, Len(body))
    IN  CASE low \in {<<"i", "n", "f">>, <<"i", "n", "f", "i", "n", "i", "t", "y">>}
               -> [ok |-> TRUE, f |-> Inf(neg)]
          [] low = <<"n", "a", "n">> -> [ok |-> TRUE, f |-> NaN]
          [] OTHER ->
               IF /\ Cardinality(dots) <= 1
                  /\ AllDigits(ip) /\ AllDigits(fp)
                  /\ Len(ip) + Len(fp) >= 1
               THEN [ok |-> TRUE, f |-> Fin(neg, DigitsVal(ip \o fp), Len(fp))]
               ELSE [ok |-> FALSE]

\* float(value) at filters.py line 90: a float is itself, an int converts
\* exactly, a str is parsed, a Decimal converts through its text; a
\* non-numeric text raises ValueError, any other type TypeError.
ToFloat(value) ==
    CASE value.t = "float" -> Return(value.f)
      [] value.t = "int" -> Return(Fin(value.n < 0, IF value.n < 0 THEN -value.n ELSE value.n, 0))
      [] value.t \in {"str", "Decimal"} ->
           LET p == ParseFloat(value.s)
           IN  IF p.ok THEN Return(p.f) ELSE Raise("ValueError")
      [] OTHER -> Raise("TypeError")

\* ---------------------------------------------------------------- timestamp

\* The calendar date of a day number counted from 1970-01-01 (proleptic
\* Gregorian calendar), as datetime.fromtimestamp computes it.
CivilFromDays(days) ==
    LET z == days + 719468
        era == z \div 146097
        doe == z - era * 146097
        yoe == (doe - doe \div 1460 + doe \div 36524 - doe \div 146096) \div 365
        doy == doe - (365 * yoe + yoe \div 4 - yoe \div 100)
        mp == (5 * doy + 2) \div 153
        d == doy - (153 * mp + 2) \div 5 + 1
        m == IF mp < 10 THEN mp + 3 ELSE mp - 9
        y == yoe + era * 400 + (IF m <= 2 THEN 1 ELSE 0)
    IN  <<y, m, d>>

\* datetime.fromtimestamp(value): the naive local time of `value` seconds
\* after the epoch, in a zone `offset` hours east of UTC
FromTimestamp(value, offset) ==
    LET local == value + 3600 * offset
        days == local \div 86400
        secs == local - days * 86400
        ymd == CivilFromDays(days)
    IN  PyDatetime(ymd[1], ymd[2], ymd[3],
                   secs \div 3600, (secs % 3600) \div 60, secs % 60)

\* one strftime directive
Directive(dt, c) ==
    CASE c = "Y" -> Pad(NatText(dt.Y), 4)
      [] c = "m" -> Pad(NatText(dt.m), 2)
      [] c = "d" -> Pad(NatText(dt.d), 2)
      [] c = "H" -> Pad(NatText(dt.H), 2)
      [] c = "M" -> Pad(NatText(dt.M), 2)
      [] c = "S" -> Pad(NatText(dt.S), 2)
      [] OTHER -> <<c>>

\* value.strftime(format_): %Y %m %d %H %M %S and %% are expanded, every
\* other character is copied
RECURSIVE Strftime(_, _)
Strftime(dt, format_) ==
    IF format_ = <<>> THEN <<>>
    ELSE IF Head(format_) = "%" /\ Len(format_) >= 2
         THEN Directive(dt, format_[2]) \o Strftime(dt, SubSeq(format_, 3, Len(format_)))
         ELSE <<Head(format_)>> \o Strftime(dt, Tail(format_))

\* isinstance(value, int): bool is a subclass of int
IsInstanceInt(value) == value.t \in {"int", "bool"}

\* the integer a bool or int counts as
AsInt(value) == IF value.t = "bool" THEN (IF value.b THEN 1 ELSE 0) ELSE value.n

\* timestamp(value, format_)
Timestamp(value, format_, offset) ==
    IF value.t = "datetime" THEN Return(PyStr(Strftime(value, format_)))
    ELSE IF IsInstanceInt(value)
         THEN Return(PyStr(Strftime(FromTimestamp(AsInt(value), offset), format_)))
         ELSE Return(PyStr(<<>>))

\* -------------------------------------------------------------------- empty

\* isinstance(value, collections.abc.Sequence)
IsSequence(value) == value.t \in {"str", "list", "tuple", "bytes"}

\* len(value) of a sized value
PyLen(value) == IF value.t \in {"str", "bytes"} THEN Len(value.s) ELSE Len(value.items)

\* a truthiness slip: `if not value` collapses every falsy value
EmptyFalsy(value) ==
    IF \/ value.t = "None"
       \/ value.t = "bool" /\ ~value.b
       \/ value.t = "int" /\ value.n = 0
       \/ value.t = "float" /\ FloatIsZero(value.f)
       \/ value.t \in {"str", "bytes"} /\ value.s = <<>>
       \/ value.t \in {"list", "tuple", "dict"} /\ value.items = <<>>
    THEN Return(PyStr(<<>>))
    ELSE Return(value)

\* empty(value)
Empty(value) ==
    IF value.t = "None" THEN Return(PyStr(<<>>))
    ELSE IF IsSequence(value) /\ PyLen(value) = 0 THEN Return(PyStr(<<>>))
         ELSE Return(value)

\* ------------------------------------------------------------------- yes_no

Black == <<"b", "l", "a", "c", "k">>
Green == <<"g", "r", "e", "e", "n">>
Red == <<"r", "e", "d">>
Yes == <<"y", "e", "s">>
No == <<"n", "o">>
On == <<"o", "n">>
Off == <<"o", "f", "f">>

SpanOpen ==
    <<"<", "s", "p", "a", "n", " ", "s", "t", "y", "l", "e", "=", "'",
      "c", "o", "l", "o", "r", ":", " ">>
SpanMid == <<";", "'", ">">>
SpanClose == <<"<", "/", "s", "p", "a", "n", ">">>

\* f"<span style='color: {clr};'>{value}</span>"
Span(clr, text) == SpanOpen \o clr \o SpanMid \o text \o SpanClose

\* format(value) inside an f-string: str(value)
Str(value) ==
    CASE value.t = "str" -> value.s
      [] value.t = "int" -> IntText(value.n)
      [] value.t = "float" -> FloatRepr(value.f)
      [] value.t = "None" -> <<"N", "o", "n", "e">>
      [] value.t = "bool" -> IF value.b THEN <<"T", "r", "u", "e">>
                             ELSE <<"F", "a", "l", "s", "e">>
      [] value.t = "list" /\ value.items = <<>> -> <<"[", "]">>
      [] OTHER -> <<"?">>

\* a slip: none_is_false is never consulted, None always stays None
YesNoNoneStays(value, is_colored, hide_no, none_is_false, on_off) ==
    LET isTrue == value.t = "bool" /\ value.b
        isFalse == value.t = "bool" /\ ~value.b
        v2 == CASE isTrue -> PyStr(IF on_off THEN On ELSE Yes)
                [] isFalse -> PyStr(IF hide_no THEN <<>> ELSE IF on_off THEN Off ELSE No)
                [] value.t = "None" -> PyStr(<<>>)
                [] OTHER -> value
        clr1 == CASE isTrue -> Green [] isFalse -> Red [] OTHER -> Black
        clr == IF ~is_colored THEN Black ELSE clr1
    IN  Return(Markup(Span(clr, Str(v2))))

\* yes_no(value, is_colored, hide_no, none_is_false, on_off).  `is True`,
\* `is False` and `is None` are identity tests: only the bool and None
\* singletons pass them; any other value reaches the f-string unchanged.
YesNo(value, is_colored, hide_no, none_is_false, on_off) ==
    LET v1 == IF none_is_false /\ value.t = "None" THEN PyBool(FALSE) ELSE value
        isTrue == v1.t = "bool" /\ v1.b
        isFalse == v1.t = "bool" /\ ~v1.b
        v2 == CASE isTrue -> PyStr(IF on_off THEN On ELSE Yes)
                [] isFalse -> PyStr(IF hide_no THEN <<>> ELSE IF on_off THEN Off ELSE No)
                [] v1.t = "None" -> PyStr(<<>>)
                [] OTHER -> v1
        clr1 == CASE isTrue -> Green [] isFalse -> Red [] OTHER -> Black
        clr == IF ~is_colored THEN Black ELSE clr1
    IN  Return(Markup(Span(clr, Str(v2))))

\* ------------------------------------------------------------------ nformat

\* a slip: only None is treated as absent
NformatAbsentNoneOnly(value) == value.t = "None"

\* value is None or value == ""
NformatAbsent(value) == value.t = "None" \/ (value.t = "str" /\ value.s = <<>>)

\* int(num): truncation toward zero; an infinity has no integer value
\* (OverflowError), nor has nan (ValueError)
FloatToInt(num) ==
    CASE num.k = "fin" -> Return(FloatTrunc(num))
      [] num.k = "inf" -> Raise("OverflowError")
      [] OTHER -> Raise("ValueError")

\* str(int(num)): the text that is grouped
GroupedText(num) == IntText(FloatToInt(num).val)

\* "".join(reversed([x + (separator if i and not i % 3 else "")
\*                   for i, x in enumerate(reversed(text))]))
Group(text, separator) ==
    LET rev == Reverse(text)
        parts == [j \in 1..Len(rev) |->
                    <<rev[j]>> \o (IF (j - 1) # 0 /\ (j - 1) % GroupSize = 0
                                   THEN separator ELSE <<>>)]
    IN  Join(Reverse(parts))

\* a slip: zero formatted like a rounded float
ZeroTextRounded(prefix, suffix) == prefix \o <<"0", ".", "0">> \o suffix

\* f"{prefix}0{suffix}" for a zero value
ZeroText(prefix, suffix) == prefix \o <<"0">> \o suffix

\* a slip: the suffix is dropped
AffixNoSuffix(prefix, formatted, suffix) == prefix \o formatted

\* f"{prefix}{formatted}{suffix}"
Affix(prefix, formatted, suffix) == prefix \o formatted \o suffix

\* nformat(value, prefix, suffix, separator, hide_zero, digits)
Nformat(value, prefix, suffix, separator, hide_zero, digits) ==
    IF NformatAbsent(value) THEN Return(PyStr(<<>>))
    ELSE LET conv == ToFloat(value)
             num == conv.val
         IN  IF conv.kind = "raise" THEN conv
             ELSE IF FloatIsZero(num)
                  THEN IF hide_zero THEN Return(PyStr(<<>>))
                       ELSE Return(PyStr(ZeroText(prefix, suffix)))
             ELSE IF FloatGt1000(num)
                  THEN IF FloatToInt(num).kind = "raise" THEN FloatToInt(num)
                       ELSE Return(PyStr(Affix(prefix, Group(GroupedText(num), separator), suffix)))
                  ELSE Return(PyStr(Affix(prefix, FloatRepr(RoundFloat(num, digits)), suffix)))

\* ------------------------------------------------------------ the calls drawn

\* values passed to nformat: absent, ints, floats, numeric and non-numeric texts, Decimals
NformatValues ==
    {
      PyNone,
      PyStr(<<>>),
      PyInt(0),
      PyInt(100),
      PyInt(1000),
      PyInt(1001),
      PyInt(1234),
      PyInt(100000),
      PyInt(1234567),
      PyInt(-5),
      PyInt(-1234567),
      PyFloat(Fin(FALSE, 0, 0)),
      PyFloat(Fin(TRUE, 0, 0)),
      PyFloat(Fin(FALSE, 123456, 3)),
      PyFloat(Fin(FALSE, 99999, 2)),
      PyFloat(Fin(FALSE, 999995, 3)),
      PyFloat(Fin(FALSE, 100001, 2)),
      PyFloat(Fin(FALSE, 123456, 2)),
      PyFloat(Fin(FALSE, 12345678, 1)),
      PyFloat(Fin(FALSE, 2675, 3)),
      PyFloat(Fin(FALSE, 125, 3)),
      PyFloat(Fin(FALSE, 5, 1)),
      PyFloat(Fin(TRUE, 1, 3)),
      PyFloat(Fin(TRUE, 12345, 1)),
      PyFloat(Fin(TRUE, 123456789, 2)),
      PyFloat(Inf(FALSE)),
      PyFloat(Inf(TRUE)),
      PyFloat(NaN),
      PyStr(<<"0">>),
      PyStr(<<"5", "0", "0", ".", "5", "0">>),
      PyStr(<<"1", "2", "3", ".", "4", "5", "6">>),
      PyStr(<<"1", "2", "3", "4">>),
      PyStr(<<"1", "2", "3", "4", "5", "6", "7">>),
      PyStr(<<"-", "1", "2", "3", "4", "5", "6", "7">>),
      PyStr(<<"i", "n", "f">>),
      PyStr(<<"a", "b", "c">>),
      PyStr(<<"1", ",", "2", "3", "4">>),
      PyStr(<<"-", "0">>),
      PyDecimal(<<"0">>),
      PyDecimal(<<"0", ".", "0", "0">>),
      PyDecimal(<<"1", "2", "3", ".", "4", "5">>),
      PyDecimal(<<"1", "2", "3", "4", ".", "5">>),
      PyDecimal(<<"I", "n", "f", "i", "n", "i", "t", "y">>)
    }

Prefixes == {<<>>, <<"$">>}

Suffixes == {<<>>, <<" ", "U", "S", "D">>}

\* thousands separators: none, comma, dot, a two-character one
Separators == {<<>>, <<",">>, <<".">>, <<":", ":">>}

Digits == (-1)..MaxDigits

DefaultFormat == <<"%", "Y", "-", "%", "m", "-", "%", "d", " ", "%", "H", ":", "%", "M", ":", "%", "S">>

Formats == {DefaultFormat, <<"%", "Y", "-", "%", "m", "-", "%", "d">>, <<"%", "H", ":", "%", "M">>}

\* values passed to timestamp: absent, datetimes, unix timestamps, a bool, a text, a float
TimestampValues ==
    {
      PyNone,
      PyDatetime(2024, 1, 15, 10, 30, 45),
      PyDatetime(1999, 12, 31, 23, 59, 59),
      PyInt(0),
      PyInt(86399),
      PyInt(951782400),
      PyInt(1705314645),
      PyBool(TRUE),
      PyStr(<<"2", "0", "2", "4">>),
      PyFloat(Fin(FALSE, 15, 1))
    }

\* UTC offsets (hours) of the local time zone the process may run in
Offsets == {-5, 0, 9}

\* values passed to empty: absent, empty and non-empty sequences, falsy and other values
EmptyValues ==
    {
      PyNone,
      PyStr(<<>>),
      PyList(<<>>),
      PyTuple(<<>>),
      [t |-> "bytes", s |-> <<>>],
      PyDict(<<>>),
      PyInt(0),
      PyInt(7),
      PyBool(FALSE),
      PyBool(TRUE),
      PyFloat(Fin(FALSE, 0, 0)),
      PyStr(<<"a">>),
      PyStr(<<" ">>),
      PyList(<<PyInt(0)>>),
      PyTuple(<<PyNone>>)
    }

\* values passed to yes_no: the three documented ones and values of other types
YesNoValues ==
    {
      PyNone,
      PyBool(TRUE),
      PyBool(FALSE),
      PyInt(0),
      PyInt(1),
      PyFloat(Fin(FALSE, 1, 0)),
      PyStr(<<>>),
      PyStr(<<"y", "e", "s">>),
      PyStr(<<"<", "b", ">", "x", "<", "/", "b", ">">>)
    }

TimestampCalls == [value : TimestampValues, format_ : Formats]

EmptyCalls == [value : EmptyValues]

YesNoCalls ==
    [value : YesNoValues, is_colored : BOOLEAN, hide_no : BOOLEAN,
     none_is_false : BOOLEAN, on_off : BOOLEAN]

NformatCalls ==
    [value : NformatValues, prefix : Prefixes, suffix : Suffixes,
     separator : Separators, hide_zero : BOOLEAN, digits : Digits]

\* ------------------------------------------------------------ state machine

Pending == [kind |-> "pending"]

Init ==
    /\ pc = "call"
    /\ ret = Pending
    /\ tz \in Offsets
    /\ \/ fn = "timestamp" /\ args \in TimestampCalls
       \/ fn = "empty" /\ args \in EmptyCalls
       \/ fn = "yes_no" /\ args \in YesNoCalls
       \/ fn = "nformat" /\ args \in NformatCalls

CallTimestamp ==
    /\ pc = "call" /\ fn = "timestamp"
    /\ ret' = Timestamp(args.value, args.format_, tz)
    /\ pc' = "done"
    /\ UNCHANGED <<fn, args, tz>>

CallEmpty ==
    /\ pc = "call" /\ fn = "empty"
    /\ ret' = Empty(args.value)
    /\ pc' = "done"
    /\ UNCHANGED <<fn, args, tz>>

CallYesNo ==
    /\ pc = "call" /\ fn = "yes_no"
    /\ ret' = YesNo(args.value, args.is_colored, args.hide_no,
                    args.none_is_false, args.on_off)
    /\ pc' = "done"
    /\ UNCHANGED <<fn, args, tz>>

CallNformat ==
    /\ pc = "call" /\ fn = "nformat"
    /\ ret' = Nformat(args.value, args.prefix, args.suffix, args.separator,
                      args.hide_zero, args.digits)
    /\ pc' = "done"
    /\ UNCHANGED <<fn, args, tz>>

Next == CallTimestamp \/ CallEmpty \/ CallYesNo \/ CallNformat

Spec == Init /\ [][Next]_vars

\* ------------------------------------------------------------------- claims

Done(f) == pc = "done" /\ fn = f

Returned == ret.kind = "return"

EmptyString == Return(PyStr(<<>>))

StartsWith(s, p) == Len(s) >= Len(p) /\ SubSeq(s, 1, Len(p)) = p

EndsWith(s, p) == Len(s) >= Len(p) /\ SubSeq(s, Len(s) - Len(p) + 1, Len(s)) = p

Contains(s, sub) == \E i \in 1..(Len(s) - Len(sub) + 1) : SubSeq(s, i, i + Len(sub) - 1) = sub

\* s is prefix + something + suffix
Wrapped(s, prefix, suffix) ==
    /\ Len(s) >= Len(prefix) + Len(suffix)
    /\ StartsWith(s, prefix)
    /\ EndsWith(s, suffix)

\* the nformat call coerced its value to a float
Coerced == ~NformatAbsent(args.value) /\ ToFloat(args.value).kind = "return"

\* that float
Num == ToFloat(args.value).val

\* num <= 1000, as Python compares (False for nan)
Le1000(f) ==
    CASE f.k = "nan" -> FALSE
      [] f.k = "inf" -> f.neg
      [] OTHER -> f.neg \/ f.m <= 1000 * Pow(10, f.e)

\* the text of the value rounded to `digits` places, between prefix and suffix
RoundedResult == Return(PyStr(args.prefix \o FloatRepr(RoundFloat(Num, args.digits)) \o args.suffix))

\* separators that no number text, prefix or suffix of the model contains
ForeignSeparators == {<<",">>, <<":", ":">>}

\* digit text with the separator between groups of three counted from the right
RECURSIVE ExpectedGrouping(_, _)
ExpectedGrouping(text, separator) ==
    IF Len(text) <= 3 THEN text
    ELSE ExpectedGrouping(SubSeq(text, 1, Len(text) - 3), separator)
           \o separator \o SubSeq(text, Len(text) - 2, Len(text))

\* the grouped text with the separator before each full group of three deleted
RECURSIVE StripGroups(_, _)
StripGroups(g, separator) ==
    IF Len(g) <= 3 + Len(separator) THEN g
    ELSE StripGroups(SubSeq(g, 1, Len(g) - 3 - Len(separator)), separator)
           \o SubSeq(g, Len(g) - 2, Len(g))

\* C1 (as stated): every string nformat returns is prefix + formatted + suffix,
\* whatever the value and the options.
NformatAlwaysWrapped ==
    (Done("nformat") /\ Returned)
        => Wrapped(ret.val.s, args.prefix, args.suffix)

\* the calls for which nformat returns the bare empty string
NformatBlank ==
    \/ NformatAbsent(args.value)
    \/ (Coerced /\ FloatIsZero(Num) /\ args.hide_zero)

\* C1 (amended): a string nformat returns is prefix + formatted + suffix unless
\* the value is None, the empty string, or zero with hide_zero set; in those
\* three cases it is the empty string, without prefix and suffix.
NformatWrappedUnlessBlank ==
    (Done("nformat") /\ Returned)
        => IF NformatBlank THEN ret = EmptyString
           ELSE /\ Wrapped(ret.val.s, args.prefix, args.suffix)
                /\ Len(ret.val.s) > Len(args.prefix) + Len(args.suffix)

NformatWrappedWitness ==
    /\ Done("nformat") /\ Returned
    /\ ~NformatBlank
    /\ args.prefix # <<>> /\ args.suffix # <<>>
    /\ ret.val.s = <<"$", "1", ",", "2", "3", "4", " ", "U", "S", "D">>

\* C2: a value above 1000 is truncated to an integer and returned as
\* prefix + grouped + suffix, the separator standing between groups of three
\* digits counted from the right; digits has no effect, and deleting the
\* separators gives back the integer's text.
NformatGroupsAbove1000 ==
    (Done("nformat") /\ Coerced /\ ~FloatIsZero(Num) /\ ~Le1000(Num) /\ Num.k # "nan")
        => /\ Returned
           /\ IsFin(Num)
           /\ LET text == NatText(Num.m \div Pow(10, Num.e))
                  grouped == ExpectedGrouping(text, args.separator)
              IN  /\ ret = Return(PyStr(args.prefix \o grouped \o args.suffix))
                  /\ StripGroups(grouped, args.separator) = text

\* C2, for the finite values above 1000 only (the part of C2 the code keeps)
NformatGroupsFiniteAbove1000 ==
    (Done("nformat") /\ Coerced /\ IsFin(Num) /\ ~Le1000(Num))
        => LET text == NatText(Num.m \div Pow(10, Num.e))
               grouped == ExpectedGrouping(text, args.separator)
           IN  /\ ret = Return(PyStr(args.prefix \o grouped \o args.suffix))
               /\ StripGroups(grouped, args.separator) = text

ZeroInputs ==
    {PyInt(0), PyFloat(Fin(FALSE, 0, 0)), PyFloat(Fin(TRUE, 0, 0)),
     PyStr(<<"0">>), PyStr(<<"-", "0">>), PyDecimal(<<"0">>),
     PyDecimal(<<"0", ".", "0", "0">>)}

\* C4: a value whose float is exactly zero gives the empty string when
\* hide_zero is set and prefix + "0" + suffix otherwise, whatever digits and
\* separator are.
NformatZero ==
    (Done("nformat") /\ (args.value \in ZeroInputs \/ (Coerced /\ FloatIsZero(Num))))
        => /\ args.value \in ZeroInputs
           /\ ret = IF args.hide_zero THEN EmptyString
                    ELSE Return(PyStr(args.prefix \o <<"0">> \o args.suffix))

NformatZeroWitness ==
    /\ Done("nformat")
    /\ args.value = PyDecimal(<<"0", ".", "0", "0">>)
    /\ ~args.hide_zero /\ args.digits = 2 /\ args.separator = <<",">>
    /\ ret = Return(PyStr(args.prefix \o <<"0">> \o args.suffix))

\* C5: for None, timestamp, empty and nformat return the empty string whatever
\* their other arguments are; nformat does so for the empty string as well.
AbsentGivesEmptyString ==
    /\ (pc = "done" /\ fn \in {"timestamp", "empty", "nformat"} /\ args.value = PyNone)
          => ret = EmptyString
    /\ (Done("nformat") /\ args.value = PyStr(<<>>)) => ret = EmptyString

AbsentWitness ==
    /\ Done("nformat")
    /\ args.value = PyStr(<<>>)
    /\ args.prefix # <<>> /\ args.suffix # <<>> /\ ~args.hide_zero
    /\ ret = EmptyString

\* the text of the yes_no table
ExpectedText(value, hide_no, none_is_false, on_off) ==
    LET no == IF hide_no THEN <<>> ELSE IF on_off THEN Off ELSE No
    IN  CASE value = PyBool(TRUE) -> IF on_off THEN On ELSE Yes
          [] value = PyBool(FALSE) -> no
          [] OTHER -> IF none_is_false THEN no ELSE <<>>

\* the color of the yes_no table
ExpectedColor(value, is_colored, none_is_false) ==
    CASE ~is_colored -> Black
      [] value = PyBool(TRUE) -> Green
      [] value = PyBool(FALSE) -> Red
      [] OTHER -> IF none_is_false THEN Red ELSE Black

\* C6: for True, False and None and every option combination, yes_no returns
\* the span whose text and color the table gives; with is_colored false the
\* color is black and the text unchanged.
YesNoFollowsTable ==
    (Done("yes_no") /\ args.value \in {PyNone, PyBool(TRUE), PyBool(FALSE)})
        => ret = Return(Markup(Span(
                    ExpectedColor(args.value, args.is_colored, args.none_is_false),
                    ExpectedText(args.value, args.hide_no, args.none_is_false, args.on_off))))

YesNoWitness ==
    /\ Done("yes_no")
    /\ args.value = PyNone /\ args.none_is_false /\ args.on_off
    /\ ~args.hide_no /\ args.is_colored
    /\ ret = Return(Markup(Span(Red, Off)))

\* C7: for a value of any type the text inside the span yes_no returns is one
\* of "yes", "no", "on", "off", "" and the color one of green, red, black.
YesNoFixedVocabulary ==
    Done("yes_no")
        => /\ Returned
           /\ \E clr \in {Green, Red, Black}, text \in {Yes, No, On, Off, <<>>} :
                 ret.val = Markup(Span(clr, text))

\* C8: empty returns the empty string exactly when its input is None or a
\* sequence of length zero; any other input, 0 and False included, is
\* returned unchanged.
EmptyCollapsesOnlyAbsent ==
    Done("empty")
        => LET v == args.value
               collapses ==
                   \/ v.t = "None"
                   \/ v.t \in {"str", "bytes"} /\ Len(v.s) = 0
                   \/ v.t \in {"list", "tuple"} /\ Len(v.items) = 0
           IN  /\ Returned
               /\ (ret.val = PyStr(<<>>)) <=> collapses
               /\ ~collapses => ret.val = v

EmptyWitness ==
    /\ Done("empty")
    /\ args.value = PyInt(0)
    /\ ret = Return(PyInt(0))

\* C9: nformat raises only when the float coercion of a present, non-empty
\* value fails, and then raises that conversion error; for a value that
\* coerces it returns a string.
NformatRaisesOnlyOnCoercion ==
    Done("nformat")
        => /\ (ret.kind = "raise") <=> (~NformatAbsent(args.value) /\ ~Coerced)
           /\ ret.kind = "raise" => ret = ToFloat(args.value)
           /\ Coerced => (Returned /\ ret.val.t = "str")

====
